---- MODULE Spec2Model ----
(***************************************************************************)
(* Model of scripts/generate-test-pptx.py: the driver main(), the          *)
(* directory step ensure_output_dir() and the seven create_*_pptx recipes. *)
(*                                                                         *)
(* A recipe is the sequence of its statements.  Each statement that acts   *)
(* on the document is one "op" record; the interpreter below (Raises,      *)
(* ApplyDoc, ApplyP, ApplyCell) gives the effect of one statement on the   *)
(* recipe's local document prs and on the local names p and cell.  The     *)
(* names slide, shape, tf, fill, table and run of the source always denote *)
(* the most recently created slide, shape, text frame, fill, table and     *)
(* run, so they are read off prs instead of being stored.                  *)
(***************************************************************************)
EXTENDS Integers, Sequences, FiniteSets, TLC

\* ------------------------------------------------------------------ bounds

\* How many times main() is invoked on the same output directory.
MaxRuns == 2

\* ------------------------------------------------------------------- units

\* pptx.util.Inches, with the argument given in tenths of an inch:
\* Inches(0.5) is Inches10(5).  The result is in EMU.
Inches10(t) == t * 91440

\* pptx.util.Pt: points to EMU.
Pt(n) == n * 12700

\* A bounding box (left, top, width, height), each in tenths of an inch.
Box(l, t, w, h) == <<Inches10(l), Inches10(t), Inches10(w), Inches10(h)>>

\* ------------------------------------------------------------ the document

\* Presentation(): the library's default deck, 10in x 7.5in, no slides.
Presentation ==
    [slide_width |-> Inches10(100), slide_height |-> Inches10(75), slides |-> <<>>]

NoFill == [type |-> "none", rgb |-> "", angle |-> 0, stops |-> <<>>]

\* A fresh paragraph: no runs, no alignment, no font attributes.
NewParagraph ==
    [align |-> "", level |-> 0, size |-> 0, bold |-> FALSE, color |-> "", runs |-> <<>>]

\* p.add_run(): an empty run with inherited attributes.
NewRun ==
    [text |-> "", size |-> 0, bold |-> FALSE, italic |-> FALSE,
     underline |-> FALSE, color |-> ""]

\* A table cell as add_table() creates it: one empty paragraph, no fill.
NewCell == [fill |-> NoFill, paras |-> <<NewParagraph>>]

\* The text frame that `x.text = t` leaves: one paragraph holding one run.
\* The paragraph's own properties survive for p.text (only its runs are
\* replaced); shape.text and cell.text rebuild the frame's single paragraph.
OneRun(t) == <<[NewRun EXCEPT !.text = t]>>

LastSlide(d) == d.slides[Len(d.slides)]
LastShape(d) == LastSlide(d)[Len(LastSlide(d))]
HasShape(d) == Len(d.slides) > 0 /\ Len(LastSlide(d)) > 0
SetLastShape(d, s) ==
    [d EXCEPT !.slides[Len(d.slides)][Len(LastSlide(d))] = s]
AddToSlide(d, s) ==
    [d EXCEPT !.slides[Len(d.slides)] = Append(@, s)]

\* ----------------------------------------------------------- the statements

SlideWidth(v)  == [op |-> "slide_width", v |-> v]
SlideHeight(v) == [op |-> "slide_height", v |-> v]
AddSlide       == [op |-> "add_slide", layout |-> 6]
AddShape(k, b) == [op |-> "add_shape", kind |-> k, box |-> b]
AddTextbox(b)  == [op |-> "add_textbox", box |-> b]
\* Mutant of AddTable: the table is created with one row too many.
AddTableExtraRow(r, c, b) == [op |-> "add_table", rows |-> r + 1, cols |-> c, box |-> b]
AddTable(r, c, b) == [op |-> "add_table", rows |-> r, cols |-> c, box |-> b]
FillSolid      == [op |-> "fill_solid"]
ForeColor(c)   == [op |-> "fore_color", rgb |-> c]
Gradient       == [op |-> "gradient"]
GradientAngle(a) == [op |-> "gradient_angle", v |-> a]
GradientStop(i, c) == [op |-> "gradient_stop", i |-> i, rgb |-> c]
ShapeText(t)   == [op |-> "shape_text", text |-> t]
WordWrap       == [op |-> "word_wrap"]
Paragraphs(i)  == [op |-> "paragraphs", i |-> i]
AddParagraph   == [op |-> "add_paragraph"]
PText(t)       == [op |-> "p_text", text |-> t]
PLevel(v)      == [op |-> "p_level", v |-> v]
PSize(v)       == [op |-> "p_size", v |-> v]
PBold          == [op |-> "p_bold"]
PColor(c)      == [op |-> "p_color", rgb |-> c]
PAlign(a)      == [op |-> "p_align", v |-> a]
AddRun         == [op |-> "add_run"]
RunText(t)     == [op |-> "run_text", text |-> t]
RunSize(v)     == [op |-> "run_size", v |-> v]
RunBold        == [op |-> "run_bold"]
RunItalic      == [op |-> "run_italic"]
RunUnderline   == [op |-> "run_underline"]
RunColor(c)    == [op |-> "run_color", rgb |-> c]
ColWidth(c, w) == [op |-> "col_width", col |-> c, v |-> w]
\* Mutant of Cell: the column index is off by one.
CellNextColumn(r, c) == [op |-> "cell", r |-> r, c |-> c + 1]
Cell(r, c)     == [op |-> "cell", r |-> r, c |-> c]
CellText(t)    == [op |-> "cell_text", text |-> t]
CellFillSolid  == [op |-> "cell_fill_solid"]
CellForeColor(c) == [op |-> "cell_fore_color", rgb |-> c]
CellParagraphs(i) == [op |-> "cell_paragraphs", i |-> i]
ForParagraphs(body) == [op |-> "for_paragraphs", body |-> body]
\* Mutant of Save: every recipe saves under the same name.
SaveSameName(f) == [op |-> "save", file |-> "test.pptx"]
Save(f)        == [op |-> "save", file |-> f]
PrintLine(l)   == [op |-> "print", line |-> l]

\* The concatenation of a sequence of statement lists (a `for` loop's
\* iterations, one list per iteration).
RECURSIVE Flatten(_)
Flatten(ss) == IF ss = <<>> THEN <<>> ELSE Head(ss) \o Flatten(Tail(ss))

\* -------------------------------------------------- one statement's effect

\* The local name p: the paragraph it denotes, as (cell, index).  cell is
\* <<>> for a paragraph of the current shape's text frame and <<r, c>> for
\* one of a table cell's; i counts from 1, and 0 means p is not yet bound.
NoP == [cell |-> <<>>, i |-> 0]

HasTextFrame(d) == HasShape(d) /\ LastShape(d).type # "table"
IsTable(d) == HasShape(d) /\ LastShape(d).type = "table"
CellBound(d, cc) == IsTable(d) /\ cc \in DOMAIN LastShape(d).cells

PValid(d, pp) ==
    /\ pp.i >= 1
    /\ IF pp.cell = <<>>
       THEN HasTextFrame(d) /\ pp.i <= Len(LastShape(d).paras)
       ELSE CellBound(d, pp.cell) /\ pp.i <= Len(LastShape(d).cells[pp.cell].paras)

ParaAt(d, pp) ==
    IF pp.cell = <<>> THEN LastShape(d).paras[pp.i]
    ELSE LastShape(d).cells[pp.cell].paras[pp.i]

SetParaAt(d, pp, para) ==
    IF pp.cell = <<>>
    THEN SetLastShape(d, [LastShape(d) EXCEPT !.paras[pp.i] = para])
    ELSE SetLastShape(d, [LastShape(d) EXCEPT !.cells[pp.cell].paras[pp.i] = para])

\* The local name run: the run most recently added to p.
HasRun(d, pp) == PValid(d, pp) /\ Len(ParaAt(d, pp).runs) >= 1
SetRun(d, pp, r) ==
    SetParaAt(d, pp, [ParaAt(d, pp) EXCEPT !.runs[Len(ParaAt(d, pp).runs)] = r])
LastRun(d, pp) == ParaAt(d, pp).runs[Len(ParaAt(d, pp).runs)]

\* x.text = t on a text frame: all paragraphs but the first are dropped and
\* the first one's content becomes the single run t.
FrameText(paras, t) == <<[paras[1] EXCEPT !.runs = OneRun(t)]>>

\* A paragraph after one of the statements that set a property of it.
ParaSet(para, o) ==
    CASE o.op = "p_text"  -> [para EXCEPT !.runs = OneRun(o.text)]
      [] o.op = "p_level" -> [para EXCEPT !.level = o.v]
      [] o.op = "p_size"  -> [para EXCEPT !.size = o.v]
      [] o.op = "p_bold"  -> [para EXCEPT !.bold = TRUE]
      [] o.op = "p_color" -> [para EXCEPT !.color = o.rgb]
      [] o.op = "p_align" -> [para EXCEPT !.align = o.v]
      [] OTHER -> para

\* The body of a `for p in shape.text_frame.paragraphs` loop on one paragraph.
RECURSIVE ParaSetAll(_, _)
ParaSetAll(para, body) ==
    IF body = <<>> THEN para ELSE ParaSetAll(ParaSet(para, Head(body)), Tail(body))

\* Whether the library raises on statement o in document d with the local
\* names p = pp and cell = cc: an index outside the collection, an attribute
\* of a fill of the wrong type, or a name that is not bound.
Raises(d, pp, cc, o) ==
    CASE o.op \in {"slide_width", "slide_height", "add_slide", "save", "print"} -> FALSE
      [] o.op \in {"add_shape", "add_textbox", "add_table"} -> Len(d.slides) = 0
      [] o.op \in {"fill_solid", "gradient", "shape_text", "word_wrap", "add_paragraph",
                   "for_paragraphs"} -> ~HasTextFrame(d)
      [] o.op = "fore_color" -> ~(HasTextFrame(d) /\ LastShape(d).fill.type = "solid")
      [] o.op = "gradient_angle" ->
            ~(HasTextFrame(d) /\ LastShape(d).fill.type = "gradient")
      [] o.op = "gradient_stop" ->
            ~(/\ HasTextFrame(d)
              /\ LastShape(d).fill.type = "gradient"
              /\ o.i + 1 \in DOMAIN LastShape(d).fill.stops)
      [] o.op = "paragraphs" ->
            ~(HasTextFrame(d) /\ o.i + 1 \in DOMAIN LastShape(d).paras)
      [] o.op \in {"p_text", "p_level", "p_size", "p_bold", "p_color", "p_align", "add_run"} ->
            ~PValid(d, pp)
      [] o.op \in {"run_text", "run_size", "run_bold", "run_italic", "run_underline",
                   "run_color"} -> ~HasRun(d, pp)
      [] o.op = "col_width" -> ~(IsTable(d) /\ o.col \in DOMAIN LastShape(d).colw)
      [] o.op = "cell" -> ~CellBound(d, <<o.r, o.c>>)
      [] o.op \in {"cell_text", "cell_fill_solid"} -> ~CellBound(d, cc)
      [] o.op = "cell_fore_color" ->
            ~(CellBound(d, cc) /\ LastShape(d).cells[cc].fill.type = "solid")
      [] o.op = "cell_paragraphs" ->
            ~(CellBound(d, cc) /\ o.i + 1 \in DOMAIN LastShape(d).cells[cc].paras)
      [] OTHER -> TRUE

\* The document after statement o (which does not raise).
ApplyDoc(d, pp, cc, o) ==
    CASE o.op = "slide_width"  -> [d EXCEPT !.slide_width = o.v]
      [] o.op = "slide_height" -> [d EXCEPT !.slide_height = o.v]
      [] o.op = "add_slide"    -> [d EXCEPT !.slides = Append(@, <<>>)]
      [] o.op = "add_shape"    ->
            AddToSlide(d, [type |-> "shape", kind |-> o.kind, box |-> o.box,
                           fill |-> NoFill, wrap |-> FALSE, paras |-> <<NewParagraph>>])
      [] o.op = "add_textbox"  ->
            AddToSlide(d, [type |-> "textbox", kind |-> "textbox", box |-> o.box,
                           fill |-> NoFill, wrap |-> FALSE, paras |-> <<NewParagraph>>])
      [] o.op = "add_table"    ->
            AddToSlide(d, [type |-> "table", rows |-> o.rows, cols |-> o.cols,
                           box |-> o.box,
                           colw |-> [c \in 0 .. o.cols - 1 |-> o.box[3] \div o.cols],
                           cells |-> [rc \in (0 .. o.rows - 1) \X (0 .. o.cols - 1) |->
                                        NewCell]])
      [] o.op = "fill_solid"   ->
            SetLastShape(d, [LastShape(d) EXCEPT !.fill = [NoFill EXCEPT !.type = "solid"]])
      [] o.op = "fore_color"   -> SetLastShape(d, [LastShape(d) EXCEPT !.fill.rgb = o.rgb])
      \* fill.gradient(): the library's default gradient, two stops of the
      \* theme's accent colour along a line that gradient_angle reads as 270.
      [] o.op = "gradient"     ->
            SetLastShape(d, [LastShape(d) EXCEPT !.fill =
                [type |-> "gradient", rgb |-> "", angle |-> 270,
                 stops |-> <<"accent1", "accent1">>]])
      [] o.op = "gradient_angle" -> SetLastShape(d, [LastShape(d) EXCEPT !.fill.angle = o.v])
      [] o.op = "gradient_stop" ->
            SetLastShape(d, [LastShape(d) EXCEPT !.fill.stops[o.i + 1] = o.rgb])
      [] o.op = "shape_text"   ->
            SetLastShape(d, [LastShape(d) EXCEPT !.paras = FrameText(@, o.text)])
      [] o.op = "word_wrap"    -> SetLastShape(d, [LastShape(d) EXCEPT !.wrap = TRUE])
      [] o.op = "add_paragraph" ->
            SetLastShape(d, [LastShape(d) EXCEPT !.paras = Append(@, NewParagraph)])
      [] o.op \in {"p_text", "p_level", "p_size", "p_bold", "p_color", "p_align"} ->
            SetParaAt(d, pp, ParaSet(ParaAt(d, pp), o))
      [] o.op = "for_paragraphs" ->
            SetLastShape(d, [LastShape(d) EXCEPT !.paras =
                [i \in DOMAIN @ |-> ParaSetAll(@[i], o.body)]])
      [] o.op = "add_run" -> SetParaAt(d, pp, [ParaAt(d, pp) EXCEPT !.runs = Append(@, NewRun)])
      [] o.op = "run_text"      -> SetRun(d, pp, [LastRun(d, pp) EXCEPT !.text = o.text])
      [] o.op = "run_size"      -> SetRun(d, pp, [LastRun(d, pp) EXCEPT !.size = o.v])
      [] o.op = "run_bold"      -> SetRun(d, pp, [LastRun(d, pp) EXCEPT !.bold = TRUE])
      [] o.op = "run_italic"    -> SetRun(d, pp, [LastRun(d, pp) EXCEPT !.italic = TRUE])
      [] o.op = "run_underline" -> SetRun(d, pp, [LastRun(d, pp) EXCEPT !.underline = TRUE])
      [] o.op = "run_color"     -> SetRun(d, pp, [LastRun(d, pp) EXCEPT !.color = o.rgb])
      [] o.op = "col_width" -> SetLastShape(d, [LastShape(d) EXCEPT !.colw[o.col] = o.v])
      [] o.op = "cell_text" ->
            SetLastShape(d, [LastShape(d) EXCEPT !.cells[cc].paras = FrameText(@, o.text)])
      [] o.op = "cell_fill_solid" ->
            SetLastShape(d, [LastShape(d) EXCEPT
                                !.cells[cc].fill = [NoFill EXCEPT !.type = "solid"]])
      [] o.op = "cell_fore_color" ->
            SetLastShape(d, [LastShape(d) EXCEPT !.cells[cc].fill.rgb = o.rgb])
      [] OTHER -> d

\* The local name p after statement o.
ApplyP(d, pp, cc, o) ==
    CASE o.op = "paragraphs"      -> [cell |-> <<>>, i |-> o.i + 1]
      [] o.op = "add_paragraph"   -> [cell |-> <<>>, i |-> Len(LastShape(d).paras) + 1]
      [] o.op = "cell_paragraphs" -> [cell |-> cc, i |-> o.i + 1]
      [] o.op = "for_paragraphs"  -> [cell |-> <<>>, i |-> Len(LastShape(d).paras)]
      [] OTHER -> pp

\* The local name cell after statement o.
ApplyCell(cc, o) == IF o.op = "cell" THEN <<o.r, o.c>> ELSE cc

\* ----------------------------------------------------------------- recipes

\* add_shape followed by a solid fill of colour c (the recurring three lines).
SolidShape(k, b, c) == <<AddShape(k, b), FillSolid, ForeColor(c)>>

\* Mutant of GradientShape: gradient_angle is never assigned.
GradientShapeNoAngle(k, b, a, c0, c1) ==
    <<AddShape(k, b), Gradient, GradientStop(0, c0), GradientStop(1, c1)>>

\* add_shape followed by fill.gradient(), the angle and the two stops.
GradientShape(k, b, a, c0, c1) ==
    <<AddShape(k, b), Gradient, GradientAngle(a), GradientStop(0, c0), GradientStop(1, c1)>>

\* Mutant of Finish: the confirmation line is printed before the save.
FinishPrintFirst(file, line) == <<PrintLine(line), Save(file)>>

\* The two statements every recipe ends with: prs.save(os.path.join(OUTPUT_DIR,
\* file)) and the print of its confirmation line.
Finish(file, line) == <<Save(file), PrintLine(line)>>

\* `p = tf.paragraphs[0]` for the first item, `p = tf.add_paragraph()` after.
ItemParagraph(i) == IF i = 1 THEN Paragraphs(0) ELSE AddParagraph

create_basic_shapes_pptx ==
    <<SlideWidth(Inches10(100)), SlideHeight(Inches10(75)), AddSlide>>
    \o SolidShape("RECTANGLE", Box(5, 5, 20, 10), "4169E1") \o <<ShapeText("Rectangle")>>
    \o SolidShape("ROUNDED_RECTANGLE", Box(30, 5, 20, 10), "32CD32")
    \o <<ShapeText("Rounded Rect")>>
    \o SolidShape("OVAL", Box(55, 5, 20, 10), "FF69B4") \o <<ShapeText("Ellipse")>>
    \o SolidShape("ISOSCELES_TRIANGLE", Box(5, 20, 20, 15), "FFA500")
    \o SolidShape("DIAMOND", Box(30, 20, 20, 15), "9400D3")
    \o SolidShape("STAR_5_POINT", Box(55, 20, 20, 15), "FFD700")
    \o SolidShape("RIGHT_ARROW", Box(5, 40, 25, 10), "008080")
    \o SolidShape("HEART", Box(35, 40, 15, 15), "FF0000")
    \o SolidShape("CLOUD", Box(55, 40, 25, 15), "87CEEB")
    \o Finish("basic-shapes.pptx", "Created basic-shapes.pptx")

create_text_formatting_pptx ==
    LET colors == <<<<"Red ", "FF0000">>, <<"Green ", "008000">>, <<"Blue ", "0000FF">>,
                    <<"Orange ", "FFA500">>, <<"Purple", "800080">>>>
        sizes == <<<<12, "12pt ">>, <<18, "18pt ">>, <<24, "24pt ">>, <<36, "36pt ">>,
                   <<48, "48pt ">>>>
        bullets == <<"First bullet item", "Second bullet item", "Third bullet item">>
        numbered == <<"1. First numbered item", "2. Second numbered item",
                      "3. Third numbered item">>
    IN  <<AddSlide,
          AddTextbox(Box(5, 3, 90, 8)), Paragraphs(0), PAlign("CENTER"),
          AddRun, RunText("Text Formatting Test"), RunSize(Pt(36)), RunBold,
          RunColor("333333"),
          AddTextbox(Box(5, 12, 40, 5)), Paragraphs(0),
          AddRun, RunText("Bold "), RunBold, RunSize(Pt(18)),
          AddRun, RunText("Italic "), RunItalic, RunSize(Pt(18)),
          AddRun, RunText("Underline "), RunUnderline, RunSize(Pt(18)),
          AddRun, RunText("Strikethrough"), RunSize(Pt(18)),
          AddTextbox(Box(5, 18, 80, 5)), Paragraphs(0)>>
        \o Flatten([i \in 1 .. Len(colors) |->
                <<AddRun, RunText(colors[i][1]), RunColor(colors[i][2]), RunSize(Pt(18))>>])
        \o <<AddTextbox(Box(5, 24, 80, 10)), Paragraphs(0)>>
        \o Flatten([i \in 1 .. Len(sizes) |->
                <<AddRun, RunText(sizes[i][2]), RunSize(Pt(sizes[i][1]))>>])
        \o <<AddTextbox(Box(5, 38, 40, 20)), WordWrap>>
        \o Flatten([i \in 1 .. Len(bullets) |->
                <<ItemParagraph(i), PText(bullets[i]), PLevel(0), PSize(Pt(16))>>])
        \o <<AddTextbox(Box(50, 38, 40, 20)), WordWrap>>
        \o Flatten([i \in 1 .. Len(numbered) |->
                <<ItemParagraph(i), PText(numbered[i]), PSize(Pt(16))>>])
        \o Finish("text-formatting.pptx", "Created text-formatting.pptx")

create_gradients_pptx ==
    <<AddSlide>>
    \o GradientShape("RECTANGLE", Box(5, 5, 30, 20), 0, "FF0000", "0000FF")
    \o <<ShapeText("Linear H")>>
    \o GradientShape("RECTANGLE", Box(40, 5, 30, 20), 90, "00FF00", "FFFF00")
    \o <<ShapeText("Linear V")>>
    \o GradientShape("RECTANGLE", Box(5, 30, 30, 20), 45, "800080", "FFA500")
    \o <<ShapeText("Diagonal")>>
    \o GradientShape("ROUNDED_RECTANGLE", Box(40, 30, 30, 20), 135, "008080", "FF69B4")
    \o <<ShapeText("Rounded Gradient")>>
    \o Finish("gradients.pptx", "Created gradients.pptx")

create_images_pptx ==
    <<AddSlide,
      AddTextbox(Box(10, 20, 80, 20)), Paragraphs(0),
      PText("Image test - add images manually or use a sample image"),
      PSize(Pt(24)), PAlign("CENTER")>>
    \o Finish("images.pptx", "Created images.pptx (placeholder)")

create_tables_pptx ==
    LET rows == 4
        cols == 3
        headers == <<"Name", "Department", "Status">>
        data == <<<<"Alice Smith", "Engineering", "Active">>,
                  <<"Bob Johnson", "Marketing", "Active">>,
                  <<"Carol Williams", "Sales", "On Leave">>>>
    IN  <<AddSlide,
          AddTextbox(Box(5, 3, 90, 6)), Paragraphs(0), PText("Table Test"),
          PSize(Pt(28)), PBold, PAlign("CENTER"),
          AddTable(rows, cols, Box(10, 12, 80, 20))>>
        \o [col \in 1 .. cols |-> ColWidth(col - 1, Inches10(25))]
        \o Flatten([col \in 1 .. Len(headers) |->
                <<Cell(0, col - 1), CellText(headers[col]), CellFillSolid,
                  CellForeColor("4169E1"), CellParagraphs(0), PBold, PColor("FFFFFF")>>])
        \o Flatten([row_idx \in 1 .. Len(data) |->
                Flatten([col_idx \in 1 .. Len(data[row_idx]) |->
                    <<Cell(row_idx, col_idx - 1), CellText(data[row_idx][col_idx])>>])])
        \o Finish("tables.pptx", "Created tables.pptx")

create_multi_slide_pptx ==
    <<AddSlide,
      AddTextbox(Box(10, 25, 80, 15)), Paragraphs(0), PText("Multi-Slide Presentation"),
      PSize(Pt(44)), PBold, PAlign("CENTER"),
      AddParagraph, PText("Testing slide navigation"), PSize(Pt(24)), PAlign("CENTER"),
      AddSlide,
      AddTextbox(Box(5, 5, 90, 8)), Paragraphs(0), PText("Slide 2: Content Slide"),
      PSize(Pt(32)), PBold>>
    \o SolidShape("RECTANGLE", Box(10, 20, 30, 20), "4169E1") \o <<ShapeText("Shape 1")>>
    \o SolidShape("OVAL", Box(50, 20, 30, 20), "32CD32") \o <<ShapeText("Shape 2")>>
    \o <<AddSlide,
         AddTextbox(Box(5, 5, 90, 8)), Paragraphs(0), PText("Slide 3: Final Slide"),
         PSize(Pt(32)), PBold,
         AddTextbox(Box(10, 20, 80, 30)), WordWrap, Paragraphs(0),
         PText("This is the final slide of the presentation. It contains text content to verify multi-slide navigation works correctly."),
         PSize(Pt(18))>>
    \o Finish("multi-slide.pptx", "Created multi-slide.pptx")

\* The prefix of the f-string of line 493, byte for byte: the source holds
\* the UTF-8 of U+2022 read as cp1252 and encoded once more, then a space.
BulletPrefix == "\\xC3\\xA2\\xE2\\x82\\xAC\\xC2\\xA2 "

create_comprehensive_pptx ==
    LET shapes_data ==
            <<<<"RECTANGLE", Box(3, 10, 18, 12), "4169E1", "Rect">>,
              <<"ROUNDED_RECTANGLE", Box(23, 10, 18, 12), "32CD32", "Round">>,
              <<"OVAL", Box(43, 10, 18, 12), "FF69B4", "Oval">>,
              <<"DIAMOND", Box(63, 10, 18, 12), "FFA500", "Diamond">>,
              <<"STAR_5_POINT", Box(81, 10, 16, 12), "FFD700", "Star">>>>
        headers == <<"Column A", "Column B", "Column C">>
        data == <<"Value 1", "Value 2", "Value 3">>
        bullets == <<"First item", "Second item", "Third item">>
    IN  <<SlideWidth(Inches10(100)), SlideHeight(Inches10(75)), AddSlide,
          AddTextbox(Box(5, 2, 90, 7)), Paragraphs(0),
          PText("Comprehensive Feature Test"), PSize(Pt(32)), PBold, PAlign("CENTER"),
          PColor("1A1A2E")>>
        \o Flatten([i \in 1 .. Len(shapes_data) |->
                SolidShape(shapes_data[i][1], shapes_data[i][2], shapes_data[i][3])
                \o <<ShapeText(shapes_data[i][4]),
                     ForParagraphs(<<PSize(Pt(12)), PBold, PAlign("CENTER")>>)>>])
        \o SolidShape("RIGHT_ARROW", Box(3, 25, 20, 8), "008080")
        \o SolidShape("LEFT_ARROW", Box(25, 25, 20, 8), "800080")
        \o SolidShape("CHEVRON", Box(47, 25, 20, 8), "DC143C")
        \o SolidShape("HEXAGON", Box(69, 24, 14, 10), "4B0082")
        \o SolidShape("HEART", Box(85, 24, 12, 10), "FF0000")
        \o <<AddTextbox(Box(3, 36, 45, 12)), WordWrap, Paragraphs(0),
             AddRun, RunText("Bold "), RunBold, RunSize(Pt(14)),
             AddRun, RunText("Italic "), RunItalic, RunSize(Pt(14)),
             AddRun, RunText("Underline "), RunUnderline, RunSize(Pt(14)),
             AddRun, RunText("Color"), RunColor("FF0000"), RunSize(Pt(14))>>
        \o GradientShape("ROUNDED_RECTANGLE", Box(50, 36, 45, 12), 45, "6600FF", "00FFFF")
        \o <<ShapeText("Gradient Fill"),
             ForParagraphs(<<PSize(Pt(14)), PBold, PColor("FFFFFF"), PAlign("CENTER")>>),
             AddTable(2, 3, Box(3, 52, 50, 10))>>
        \o Flatten([col \in 1 .. Len(headers) |->
                <<Cell(0, col - 1), CellText(headers[col]), CellFillSolid,
                  CellForeColor("2C3E50"), CellParagraphs(0), PBold, PSize(Pt(11)),
                  PColor("FFFFFF")>>])
        \o Flatten([col \in 1 .. Len(data) |->
                <<Cell(1, col - 1), CellText(data[col]), CellParagraphs(0), PSize(Pt(11))>>])
        \o <<AddTextbox(Box(55, 52, 40, 15)), WordWrap>>
        \o Flatten([i \in 1 .. Len(bullets) |->
                <<ItemParagraph(i), PText(BulletPrefix \o bullets[i]), PSize(Pt(12))>>])
        \o Finish("comprehensive.pptx", "Created comprehensive.pptx")

\* ------------------------------------------------------------------ driver

\* Mutant of Order: two calls of main() change places.
OrderSwapped ==
    <<"basic-shapes", "text-formatting", "tables", "gradients", "multi-slide",
      "comprehensive", "images">>

\* The recipes in the order main() calls them, by the name of their fixture.
Order ==
    <<"basic-shapes", "text-formatting", "gradients", "tables", "multi-slide",
      "comprehensive", "images">>

Recipes == {Order[i] : i \in DOMAIN Order}

\* The statements of the recipe that builds fixture r.
Recipe(r) ==
    CASE r = "basic-shapes"    -> create_basic_shapes_pptx
      [] r = "text-formatting" -> create_text_formatting_pptx
      [] r = "gradients"       -> create_gradients_pptx
      [] r = "tables"          -> create_tables_pptx
      [] r = "multi-slide"     -> create_multi_slide_pptx
      [] r = "comprehensive"   -> create_comprehensive_pptx
      [] r = "images"          -> create_images_pptx

\* Mutant of NewDocument: the recipes build on one shared document.
ReuseDocument(old) == old

\* The first statement of every recipe, prs = Presentation(): a document of
\* the recipe's own, whatever document an earlier recipe built.
NewDocument(old) == Presentation

\* A file of the output directory: the document written to it, and whether
\* the write ran to its end.
WrittenFile(d) == [complete |-> TRUE, doc |-> d]
BrokenFile(d) == [complete |-> FALSE, doc |-> d]

\* f with the value v at x, x added to the domain when it is not there: a
\* file created or overwritten in place.
Put(f, x, v) == [y \in DOMAIN f \cup {x} |-> IF y = x THEN v ELSE f[y]]

EmptyDir == [x \in {} |-> WrittenFile(Presentation)]

\* What the fixtures directory may hold before the first run: nothing, or
\* files an earlier version of the script or a developer left there.
InitialDirs ==
    {EmptyDir,
     Put(Put(EmptyDir, "README.md", WrittenFile(Presentation)),
         "images.pptx", BrokenFile(Presentation))}

VARIABLES
    pc,         \* where main() is: ensure_output_dir, banner, recipes, done, failed
    idx,        \* the recipe main() calls next, as an index of Order
    cur,        \* the recipe that is running, "" between recipes
    step,       \* the statement of cur that runs next
    prs,        \* the running recipe's document
    p,          \* the running recipe's local name p
    cell,       \* the running recipe's local name cell
    dirExists,  \* whether OUTPUT_DIR exists
    files,      \* the files of OUTPUT_DIR, by name
    console,    \* the lines printed by this run
    run,        \* how many times main() has been invoked
    calls,      \* history: the functions main() has called in this run
    saves,      \* history: the writes of this run, as (recipe, file)
    cellLog,    \* history: the table cells the running recipe has addressed
    error,      \* history: the call of main() that raised, "" when none has
    startFiles, \* history: the directory's file names when this run began
    listing     \* history: the directory's file names after each successful run

vars ==
    <<pc, idx, cur, step, prs, p, cell, dirExists, files, console, run, calls,
      saves, cellLog, error, startFiles, listing>>

BannerLines ==
    <<"Generating test PPTX files in scripts/../tests/fixtures...",
      "--------------------------------------------------">>
DoneLines ==
    <<"--------------------------------------------------",
      "Done! Test files created in tests/fixtures/">>

Init ==
    /\ pc = "ensure_output_dir"
    /\ idx = 1
    /\ cur = ""
    /\ step = 0
    /\ prs = Presentation
    /\ p = NoP
    /\ cell = <<>>
    /\ dirExists \in BOOLEAN
    /\ files \in (IF dirExists THEN InitialDirs ELSE {EmptyDir})
    /\ console = <<>>
    /\ run = 1
    /\ calls = <<>>
    /\ saves = <<>>
    /\ cellLog = <<>>
    /\ error = ""
    /\ startFiles = DOMAIN files
    /\ listing = <<>>

\* The statement the running recipe is at.
Stmt == Recipe(cur)[step]
InRecipe == pc = "recipes" /\ cur # ""
AtStmt == InRecipe /\ step \in DOMAIN Recipe(cur)

\* ensure_output_dir(): os.makedirs(OUTPUT_DIR, exist_ok=True) returns.
ensure_output_dir ==
    /\ pc = "ensure_output_dir"
    /\ dirExists' = TRUE
    /\ calls' = Append(calls, "ensure_output_dir")
    /\ pc' = "banner"
    /\ UNCHANGED <<idx, cur, step, prs, p, cell, files, console, run, saves,
                   cellLog, error, startFiles, listing>>

\* Mutant of ensure_output_dir_raises: the error is swallowed and main() goes on.
ensure_output_dir_ignored ==
    /\ pc = "ensure_output_dir"
    /\ ~dirExists
    /\ calls' = Append(calls, "ensure_output_dir")
    /\ error' = "ensure_output_dir"
    /\ pc' = "banner"
    /\ UNCHANGED <<idx, cur, step, prs, p, cell, dirExists, files, console, run,
                   saves, cellLog, startFiles, listing>>

\* os.makedirs raises (a parent that is not writable): with exist_ok=True
\* only when the directory is not there yet.  main() catches nothing.
ensure_output_dir_raises ==
    /\ pc = "ensure_output_dir"
    /\ ~dirExists
    /\ calls' = Append(calls, "ensure_output_dir")
    /\ error' = "ensure_output_dir"
    /\ pc' = "failed"
    /\ UNCHANGED <<idx, cur, step, prs, p, cell, dirExists, files, console, run,
                   saves, cellLog, startFiles, listing>>

\* The two prints after the directory step.
PrintBanner ==
    /\ pc = "banner"
    /\ console' = console \o BannerLines
    /\ pc' = "recipes"
    /\ UNCHANGED <<idx, cur, step, prs, p, cell, dirExists, files, run, calls,
                   saves, cellLog, error, startFiles, listing>>

\* What calling recipe r sets up: its own document, its local names unbound.
Enter(r) ==
    /\ cur' = r
    /\ step' = 1
    /\ prs' = NewDocument(prs)
    /\ p' = NoP
    /\ cell' = <<>>
    /\ cellLog' = <<>>

\* main() calls the next recipe of its list.
CallRecipe ==
    /\ pc = "recipes"
    /\ cur = ""
    /\ idx \in DOMAIN Order
    /\ Enter(Order[idx])
    /\ calls' = Append(calls, Order[idx])
    /\ UNCHANGED <<pc, idx, dirExists, files, console, run, saves, error,
                   startFiles, listing>>

\* The table cell a statement addresses, with the size of the table.
Logged(d, o) ==
    [r |-> o.r, c |-> o.c, text |-> FALSE,
     rows |-> IF IsTable(d) THEN LastShape(d).rows ELSE 0,
     cols |-> IF IsTable(d) THEN LastShape(d).cols ELSE 0]

LogOf(d, cc, o) ==
    CASE o.op = "cell" -> <<Logged(d, o)>>
      [] o.op = "cell_text" /\ cc # <<>> ->
            <<[Logged(d, [r |-> cc[1], c |-> cc[2]]) EXCEPT !.text = TRUE]>>
      [] OTHER -> <<>>

\* One statement that builds the document, and returns.
Build ==
    /\ AtStmt
    /\ Stmt.op \notin {"save", "print"}
    /\ ~Raises(prs, p, cell, Stmt)
    /\ prs' = ApplyDoc(prs, p, cell, Stmt)
    /\ p' = ApplyP(prs, p, cell, Stmt)
    /\ cell' = ApplyCell(cell, Stmt)
    /\ cellLog' = cellLog \o LogOf(prs, cell, Stmt)
    /\ step' = step + 1
    /\ UNCHANGED <<pc, idx, cur, dirExists, files, console, run, calls, saves,
                   error, startFiles, listing>>

\* Mutant of BuildFails: main() catches the error and calls the next recipe.
BuildFailsCaught ==
    /\ AtStmt
    /\ Stmt.op \notin {"save", "print"}
    /\ cellLog' = cellLog \o LogOf(prs, cell, Stmt)
    /\ error' = cur
    /\ cur' = ""
    /\ step' = 0
    /\ idx' = idx + 1
    /\ UNCHANGED <<pc, prs, p, cell, dirExists, files, console, run, calls,
                   saves, startFiles, listing>>

\* One statement that builds the document, and raises: the library refuses
\* its arguments, or the environment fails it.  Neither the recipe nor main()
\* catches anything, so the run is over.
BuildFails ==
    /\ AtStmt
    /\ Stmt.op \notin {"save", "print"}
    /\ cellLog' = cellLog \o LogOf(prs, cell, Stmt)
    /\ error' = cur
    /\ pc' = "failed"
    /\ UNCHANGED <<idx, cur, step, prs, p, cell, dirExists, files, console, run,
                   calls, saves, startFiles, listing>>

\* Mutant of SaveDoc: the file is opened for exclusive creation, so a file
\* of that name stops the save.
SaveDocExclusive ==
    /\ AtStmt
    /\ Stmt.op = "save"
    /\ dirExists
    /\ Stmt.file \notin DOMAIN files
    /\ files' = Put(files, Stmt.file, WrittenFile(prs))
    /\ saves' = Append(saves, <<cur, Stmt.file>>)
    /\ step' = step + 1
    /\ UNCHANGED <<pc, idx, cur, prs, p, cell, dirExists, console, run, calls,
                   cellLog, error, startFiles, listing>>

\* prs.save(path): the file is created, or overwritten when it is there.
SaveDoc ==
    /\ AtStmt
    /\ Stmt.op = "save"
    /\ dirExists
    /\ files' = Put(files, Stmt.file, WrittenFile(prs))
    /\ saves' = Append(saves, <<cur, Stmt.file>>)
    /\ step' = step + 1
    /\ UNCHANGED <<pc, idx, cur, prs, p, cell, dirExists, console, run, calls,
                   cellLog, error, startFiles, listing>>

\* prs.save(path) raises: before the file is opened, or with the file
\* opened for writing and left incomplete.
SaveFails ==
    /\ AtStmt
    /\ Stmt.op = "save"
    /\ \/ UNCHANGED files
       \/ dirExists /\ files' = Put(files, Stmt.file, BrokenFile(prs))
    /\ error' = cur
    /\ pc' = "failed"
    /\ UNCHANGED <<idx, cur, step, prs, p, cell, dirExists, console, run, calls,
                   saves, cellLog, startFiles, listing>>

\* The recipe's print of its confirmation line.
PrintCreated ==
    /\ AtStmt
    /\ Stmt.op = "print"
    /\ console' = Append(console, Stmt.line)
    /\ step' = step + 1
    /\ UNCHANGED <<pc, idx, cur, prs, p, cell, dirExists, files, run, calls,
                   saves, cellLog, error, startFiles, listing>>

\* The recipe returns to main().
ReturnFromRecipe ==
    /\ InRecipe
    /\ step = Len(Recipe(cur)) + 1
    /\ cur' = ""
    /\ step' = 0
    /\ idx' = idx + 1
    /\ UNCHANGED <<pc, prs, p, cell, dirExists, files, console, run, calls,
                   saves, cellLog, error, startFiles, listing>>

\* The two prints after the last recipe; main() returns.
PrintDone ==
    /\ pc = "recipes"
    /\ cur = ""
    /\ idx = Len(Order) + 1
    /\ console' = console \o DoneLines
    /\ listing' = Append(listing, DOMAIN files)
    /\ pc' = "done"
    /\ UNCHANGED <<idx, cur, step, prs, p, cell, dirExists, files, run, calls,
                   saves, cellLog, error, startFiles>>

\* The script is run again on the directory as the last run left it.
Rerun ==
    /\ pc \in {"done", "failed"}
    /\ run < MaxRuns
    /\ run' = run + 1
    /\ pc' = "ensure_output_dir"
    /\ idx' = 1
    /\ cur' = ""
    /\ step' = 0
    /\ prs' = Presentation
    /\ p' = NoP
    /\ cell' = <<>>
    /\ console' = <<>>
    /\ calls' = <<>>
    /\ saves' = <<>>
    /\ cellLog' = <<>>
    /\ error' = ""
    /\ startFiles' = DOMAIN files
    /\ UNCHANGED <<dirExists, files, listing>>

Next ==
    \/ ensure_output_dir
    \/ ensure_output_dir_raises
    \/ PrintBanner
    \/ CallRecipe
    \/ Build
    \/ BuildFails
    \/ SaveDoc
    \/ SaveFails
    \/ PrintCreated
    \/ ReturnFromRecipe
    \/ PrintDone
    \/ Rerun

Spec == Init /\ [][Next]_vars

\* -------------------------------------------------- recipes in any order

\* The file recipe r saves to.
SavedName(r) == SelectSeq(Recipe(r), LAMBDA o : o.op = "save")[1].file

\* A harness that calls the recipes one at a time in an order of its own
\* choosing, each at most once, on an existing and empty directory.
InitAnyOrder ==
    /\ pc = "recipes"
    /\ idx = 1
    /\ cur = ""
    /\ step = 0
    /\ prs = Presentation
    /\ p = NoP
    /\ cell = <<>>
    /\ dirExists = TRUE
    /\ files = EmptyDir
    /\ console = <<>>
    /\ run = 1
    /\ calls = <<>>
    /\ saves = <<>>
    /\ cellLog = <<>>
    /\ error = ""
    /\ startFiles = {}
    /\ listing = <<>>

\* Any recipe that has not run yet is called; its output is looked at on
\* its own.
CallAnyRecipe ==
    /\ pc = "recipes"
    /\ cur = ""
    /\ \E r \in Recipes :
        /\ SavedName(r) \notin DOMAIN files
        /\ Enter(r)
        /\ calls' = <<r>>
    /\ console' = <<>>
    /\ saves' = <<>>
    /\ UNCHANGED <<pc, idx, dirExists, files, run, error, startFiles, listing>>

NextAnyOrder ==
    \/ CallAnyRecipe
    \/ Build
    \/ SaveDoc
    \/ PrintCreated
    \/ ReturnFromRecipe

SpecAnyOrder == InitAnyOrder /\ [][NextAnyOrder]_vars

\* ------------------------------------------------------------- properties

\* The document and the local names after one statement.
StepAll(st, o) ==
    [d |-> ApplyDoc(st.d, st.p, st.cell, o),
     p |-> ApplyP(st.d, st.p, st.cell, o),
     cell |-> ApplyCell(st.cell, o)]

\* The document and the local names after a list of statements, run from
\* first to last.  The list is halved and the state after the first half is
\* read before the second half starts (that is all the test on mid does),
\* which keeps the evaluation shallow.
RECURSIVE RunAll(_, _)
RunAll(st, os) ==
    IF os = <<>> THEN st
    ELSE IF Len(os) = 1 THEN StepAll(st, os[1])
    ELSE LET h == Len(os) \div 2
             mid == RunAll(st, SubSeq(os, 1, h))
         IN  IF mid.cell = mid.cell
             THEN RunAll(mid, SubSeq(os, h + 1, Len(os)))
             ELSE mid

\* The document the first n statements of recipe r build from a new one.
Built(r, n) ==
    RunAll([d |-> Presentation, p |-> NoP, cell |-> <<>>], SubSeq(Recipe(r), 1, n)).d

\* The document each recipe builds when it is the only recipe that runs.
AloneDocs == [r \in Recipes |-> Built(r, Len(Recipe(r)))]
Alone(r) == AloneDocs[r]

IsPrefix(a, b) == Len(a) <= Len(b) /\ \A i \in DOMAIN a : a[i] = b[i]

\* The fixtures in the order the specification lists the calls, with the
\* file and the confirmation line of each.
Fixtures ==
    <<[name |-> "basic-shapes", file |-> "basic-shapes.pptx",
       line |-> "Created basic-shapes.pptx"],
      [name |-> "text-formatting", file |-> "text-formatting.pptx",
       line |-> "Created text-formatting.pptx"],
      [name |-> "gradients", file |-> "gradients.pptx",
       line |-> "Created gradients.pptx"],
      [name |-> "tables", file |-> "tables.pptx",
       line |-> "Created tables.pptx"],
      [name |-> "multi-slide", file |-> "multi-slide.pptx",
       line |-> "Created multi-slide.pptx"],
      [name |-> "comprehensive", file |-> "comprehensive.pptx",
       line |-> "Created comprehensive.pptx"],
      [name |-> "images", file |-> "images.pptx",
       line |-> "Created images.pptx (placeholder)"]>>

FixtureNames == [i \in DOMAIN Fixtures |-> Fixtures[i].name]
FixtureFiles == {Fixtures[i].file : i \in DOMAIN Fixtures}
FixtureLines == [i \in DOMAIN Fixtures |-> Fixtures[i].line]
ExpectedCalls == <<"ensure_output_dir">> \o FixtureNames

\* The position of call c in the expected calls, 0 when it is none of them.
CallIndex(c) ==
    IF \E i \in DOMAIN ExpectedCalls : ExpectedCalls[i] = c
    THEN CHOOSE i \in DOMAIN ExpectedCalls : ExpectedCalls[i] = c
    ELSE 0

\* Whether file f was written, to its end, by this run.
WrittenNow(f) ==
    /\ \E i \in DOMAIN saves : saves[i][2] = f
    /\ f \in DOMAIN files
    /\ files[f].complete

\* The shapes of slide sl that satisfy Test.
ShapesWhere(sl, Test(_)) == {i \in DOMAIN sl : Test(sl[i])}

IsAutoShape(s) == s.type = "shape"
IsTextbox(s) == s.type = "textbox"
IsTableShape(s) == s.type = "table"
HasGradient(s) == s.type # "table" /\ s.fill.type = "gradient"
HasMultiRunParagraph(s) ==
    s.type = "textbox" /\ \E i \in DOMAIN s.paras : Len(s.paras[i].runs) > 1
OnlySingleRunParagraphs(s) ==
    s.type = "textbox" /\ \A i \in DOMAIN s.paras : Len(s.paras[i].runs) = 1

\* C1: in a run of main() that completes, the calls are ensure_output_dir
\* and then the seven recipes, once each, in the order basic-shapes,
\* text-formatting, gradients, tables, multi-slide, comprehensive, images;
\* at every moment the calls made so far are a prefix of that list, so no
\* recipe starts before the directory step and none is repeated or skipped.
C1_FixedOrder ==
    /\ IsPrefix(calls, ExpectedCalls)
    /\ pc = "done" => calls = ExpectedCalls
    /\ cur # "" => calls # <<>> /\ calls[Len(calls)] = cur

C1_Witness == pc = "done" /\ Len(calls) = 8

\* C2: each recipe writes once, to its own file; a completed run that began
\* on an empty directory leaves exactly the seven fixture files, each
\* written to its end, and no run writes a file of another name.
C2_SevenFiles ==
    /\ Len(saves) <= Len(Fixtures)
    /\ \A i \in DOMAIN saves : saves[i] = <<Fixtures[i].name, Fixtures[i].file>>
    /\ pc = "recipes" /\ cur = "" => Len(saves) = idx - 1
    /\ DOMAIN files \subseteq startFiles \cup FixtureFiles
    /\ pc = "done" /\ startFiles = {} =>
        /\ DOMAIN files = FixtureFiles
        /\ Cardinality(DOMAIN files) = 7
        /\ \A f \in FixtureFiles : files[f].complete

C2_Witness == pc = "done" /\ startFiles = {} /\ Len(saves) = 7

\* C3: once a recipe has raised, the run is failed and stays so: the
\* failing recipe is the last call made, the console holds the banner and
\* the confirmation lines of the recipes before it only (neither its own
\* line nor the closing lines), and the files those recipes wrote are in
\* the directory as they were written.
C3_FailFast ==
    error \in Recipes =>
        /\ pc = "failed"
        /\ calls = SubSeq(ExpectedCalls, 1, CallIndex(error))
        /\ console = BannerLines \o SubSeq(FixtureLines, 1, CallIndex(error) - 2)
        /\ \A i \in 1 .. CallIndex(error) - 2 :
            /\ Fixtures[i].file \in DOMAIN files
            /\ files[Fixtures[i].file] = WrittenFile(Alone(Fixtures[i].name))

C3_Witness ==
    /\ error = "tables"
    /\ pc = "failed"
    /\ Stmt.op = "save"
    /\ "tables.pptx" \in DOMAIN files
    /\ ~files["tables.pptx"].complete

\* C4: when creating the directory fails, nothing else has happened: no
\* recipe was called, no file was written and nothing was printed; and
\* when the directory exists the directory step cannot fail and succeeds.
C4_DirStep ==
    /\ error = "ensure_output_dir" =>
        /\ pc = "failed"
        /\ calls = <<"ensure_output_dir">>
        /\ console = <<>>
        /\ saves = <<>>
        /\ files = EmptyDir
        /\ ~dirExists
    /\ pc = "ensure_output_dir" /\ dirExists =>
        ENABLED ensure_output_dir /\ ~ENABLED ensure_output_dir_raises
    /\ pc = "banner" => dirExists /\ error = ""

C4_Witness == error = "ensure_output_dir" /\ run = 2

\* C5: a run on a directory that holds an earlier run's files is not
\* stopped by them (the directory step and every save can succeed), and
\* every completed run leaves the same set of file names: the names it
\* found plus the seven fixtures, each fixture written again to its end.
C5_Idempotent ==
    /\ \A i, j \in DOMAIN listing : listing[i] = listing[j]
    /\ pc = "ensure_output_dir" /\ dirExists => ENABLED ensure_output_dir
    /\ AtStmt /\ Stmt.op = "save" => ENABLED SaveDoc
    /\ pc = "done" =>
        /\ DOMAIN files = startFiles \cup FixtureFiles
        /\ \A f \in FixtureFiles : files[f] = WrittenFile(Alone(CHOOSE r \in Recipes : SavedName(r) = f))

C5_Witness == Len(listing) = 2 /\ FixtureFiles \subseteq startFiles /\ pc = "done"

\* The slide of the comprehensive fixture as this run wrote it.
ComprehensiveSlide == files["comprehensive.pptx"].doc.slides[1]

ComprehensiveShape ==
    LET sl == ComprehensiveSlide
        tables == ShapesWhere(sl, IsTableShape)
    IN  /\ Len(files["comprehensive.pptx"].doc.slides) = 1
        /\ Cardinality(ShapesWhere(sl, IsAutoShape)) >= 10
        /\ Cardinality({sl[i].kind : i \in ShapesWhere(sl, IsAutoShape)}) >= 10
        /\ Cardinality(tables) = 1
        /\ \A i \in tables : sl[i].rows = 2 /\ sl[i].cols = 3

\* C6 as stated: the comprehensive document has 1 slide, at least 10
\* distinct shapes, exactly 1 table of 2 rows and 3 columns, and at least 2
\* text boxes with a paragraph of more than one run.
C6_AsStated ==
    WrittenNow("comprehensive.pptx") =>
        /\ ComprehensiveShape
        /\ Cardinality(ShapesWhere(ComprehensiveSlide, HasMultiRunParagraph)) >= 2

\* C6, amended: the comprehensive document has 1 slide, at least 10
\* distinct shapes (11 auto shapes of 10 kinds), exactly 1 table of 2 rows
\* and 3 columns, and 3 text boxes of which exactly 1 has a paragraph of
\* more than one run (4 runs); the title and the bulleted text box hold
\* single-run paragraphs only, the bulleted one 3 of them.
C6_Comprehensive ==
    WrittenNow("comprehensive.pptx") =>
        LET sl == ComprehensiveSlide
            multi == ShapesWhere(sl, HasMultiRunParagraph)
            single == ShapesWhere(sl, OnlySingleRunParagraphs)
        IN  /\ ComprehensiveShape
            /\ Cardinality(ShapesWhere(sl, IsAutoShape)) = 11
            /\ Cardinality(ShapesWhere(sl, IsTextbox)) = 3
            /\ Cardinality(multi) = 1
            /\ \A i \in multi : Len(sl[i].paras) = 1 /\ Len(sl[i].paras[1].runs) = 4
            /\ Cardinality(single) = 2
            /\ {Len(sl[i].paras) : i \in single} = {1, 3}

C6_Witness == WrittenNow("comprehensive.pptx") /\ cur = "comprehensive"

\* C7: in every document a run has written, a gradient fill has exactly two
\* colour stops, both set by the recipe, and one angle; the gradients
\* document holds exactly 4 shapes, each with a gradient fill of 2 stops,
\* at the angles 0, 90, 45 and 135 in this order, no two of them equal.
C7_Gradients ==
    /\ \A f \in DOMAIN files : WrittenNow(f) =>
        \A k \in DOMAIN files[f].doc.slides :
            \A i \in ShapesWhere(files[f].doc.slides[k], HasGradient) :
                LET fill == files[f].doc.slides[k][i].fill
                IN  /\ Len(fill.stops) = 2
                    /\ "accent1" \notin {fill.stops[1], fill.stops[2]}
                    /\ fill.angle \in 0 .. 359
    /\ WrittenNow("gradients.pptx") =>
        LET d == files["gradients.pptx"].doc
        IN  /\ Len(d.slides) = 1
            /\ Len(d.slides[1]) = 4
            /\ ShapesWhere(d.slides[1], HasGradient) = 1 .. 4
            /\ [i \in 1 .. 4 |-> d.slides[1][i].fill.angle] = <<0, 90, 45, 135>>
            /\ \A i, j \in 1 .. 4 :
                i # j => d.slides[1][i].fill.angle # d.slides[1][j].fill.angle

C7_Witness == WrittenNow("gradients.pptx") /\ WrittenNow("comprehensive.pptx")

\* The cells the running recipe has assigned text to, one entry per
\* assignment.
TextLog == SelectSeq(cellLog, LAMBDA e : e.text)

\* C8: every table cell a recipe addresses lies inside its table; the
\* tables document holds exactly 1 table, of 4 rows and 3 columns, whose
\* row 0 has a solid fill and bold white text and whose rows 1 to 3 have
\* neither, every cell holding one run of text; and when the recipe saves,
\* each of the 12 cells has been assigned text exactly once.
C8_Tables ==
    /\ \A i \in DOMAIN cellLog :
        /\ cellLog[i].r \in 0 .. cellLog[i].rows - 1
        /\ cellLog[i].c \in 0 .. cellLog[i].cols - 1
    /\ WrittenNow("tables.pptx") =>
        LET sl == files["tables.pptx"].doc.slides[1]
            tables == ShapesWhere(sl, IsTableShape)
        IN  /\ Len(files["tables.pptx"].doc.slides) = 1
            /\ Cardinality(tables) = 1
            /\ \A t \in tables :
                /\ sl[t].rows = 4 /\ sl[t].cols = 3
                /\ DOMAIN sl[t].cells = (0 .. 3) \X (0 .. 2)
                /\ \A rc \in DOMAIN sl[t].cells :
                    LET cl == sl[t].cells[rc]
                    IN  /\ Len(cl.paras) = 1
                        /\ Len(cl.paras[1].runs) = 1
                        /\ cl.paras[1].runs[1].text # ""
                        /\ (rc[1] = 0) = (cl.fill.type = "solid")
                        /\ (rc[1] = 0) = cl.paras[1].bold
                        /\ (rc[1] = 0) = (cl.paras[1].color = "FFFFFF")
    /\ cur = "tables" /\ WrittenNow("tables.pptx") /\ pc = "recipes" =>
        /\ Len(TextLog) = 12
        /\ \A rc \in (0 .. 3) \X (0 .. 2) :
            Cardinality({i \in DOMAIN TextLog :
                            <<TextLog[i].r, TextLog[i].c>> = rc}) = 1

C8_Witness ==
    /\ cur = "tables"
    /\ pc = "recipes"
    /\ WrittenNow("tables.pptx")
    /\ Len(cellLog) = 24

\* C9: whatever the order in which the recipes are called, and whichever
\* of them have run before, each recipe writes only the file of its own
\* name, and the document in it is the one the recipe builds when it runs
\* alone.
C9_OrderIndependent ==
    /\ \A f \in DOMAIN files :
        \E i \in DOMAIN Fixtures :
            /\ f = Fixtures[i].file
            /\ files[f] = WrittenFile(Alone(Fixtures[i].name))
    /\ Len(saves) <= 1
    /\ \A i \in DOMAIN saves :
        /\ calls = <<saves[i][1]>>
        /\ \E k \in DOMAIN Fixtures : saves[i] = <<Fixtures[k].name, Fixtures[k].file>>

C9_Witness ==
    /\ DOMAIN files = FixtureFiles
    /\ calls = <<"basic-shapes">>
    /\ step = Len(Recipe(cur)) + 1

\* C10: a recipe's document is not changed once it is saved (as long as the
\* recipe runs, the file holds the document as it is); a confirmation line
\* on the console means that the recipe's file has been written by this
\* run; and a completed run has printed the banner, the seven confirmation
\* lines in the order of the recipes, and the closing lines.
C10_ConstructSavePrint ==
    /\ \A i \in DOMAIN saves :
        saves[i][1] = cur /\ pc = "recipes" => files[saves[i][2]] = WrittenFile(prs)
    /\ \A i \in DOMAIN Fixtures :
        (\E k \in DOMAIN console : console[k] = Fixtures[i].line) =>
            /\ \E j \in DOMAIN saves : saves[j] = <<Fixtures[i].name, Fixtures[i].file>>
            /\ Fixtures[i].file \in DOMAIN files
    /\ Len(console) <= 2 + Len(saves) + 2
    /\ pc = "done" => console = BannerLines \o FixtureLines \o DoneLines

C10_Witness ==
    /\ pc = "done"
    /\ Len(console) = 11
    /\ console[7] = "Created multi-slide.pptx"

====
